---- MODULE Spec2Model ----
(***************************************************************************)
(* Stock ledger of WMS Pro: the products and movements tables, the         *)
(* product routes (POST/PUT/DELETE /api/products) and the stock-update     *)
(* route (POST /api/products/:id/stock) with DatabaseStorage.updateStock.  *)
(*                                                                         *)
(* Spec        the ledger routes as sequential requests, a handler a step  *)
(* SpecApi     the product and stock routes as concurrent requests, a step *)
(*             per awaited statement, on the SQLite (libsql) build         *)
(* SpecStorage concurrent calls of the storage interface, SQLite build     *)
(* SpecPg      concurrent stock updates on the PostgreSQL variant          *)
(* SpecPgWithdrawal  concurrent withdrawals on the PostgreSQL variant      *)
(* SpecFinite  a finite number of concurrent updateStock calls, fair       *)
(* SpecAdmin   the sequential routes with PUT and the zone routes          *)
(* SpecRead    the read queries applied to tables at rest                  *)
(* SpecCatalog the product and zone routes under the tables' constraints   *)
(* SpecDashboard  getDashboardMetrics among concurrent product requests    *)
(***************************************************************************)
EXTENDS Integers, Sequences, FiniteSets, TLC

\* ---------------------------------------------------------------- bounds
MaxStock == 2
MaxMovements == 3
\* the movements cap of the specifications that interleave requests
MaxTxMovements == 2

\* ------------------------------------------------------- request domains
\* A JSON field that may be missing is a sequence of length 0 or 1.
Absent == << >>
Opt(S) == {Absent} \cup {<<x>> : x \in S}

Users == {"u1"}
\* the ids the sequential specification gives to products rows
ProductIds == {1, 2}
CallIds == {1, 2}
\* the interleaved specifications follow one products row; a request may
\* also name an id no row has
TxProductIds == {1}
TxRequestIds == {1, 2}
\* userId arguments of the storage interface: a user, a missing user, none
UserIdArgs == {"u1", "u9", ""}
RequestIds == ProductIds
Quantities == {0 - 1, 0, 1, 2}
MovementTypes == {"IN", "OUT"}
RequestTypes == MovementTypes \cup {"MOVE"}
Reasons == {"restock"}
StockInputs == {0 - 1, 0, 1, 2}

VARIABLES products, movements, response, calls, pendingInitial, zones

vars == <<products, movements, response, calls, pendingInitial, zones>>

\* ------------------------------------------------------------- helpers
OrNull(s) == IF s = "" THEN "null" ELSE s

Response(status, message) == [status |-> status, message |-> message]

\* POST /api/products/:id/stock, line 492
StockUpdated == Response(200, "Stock updated successfully")

\* a schema without the min(0) of currentStock
schemaAcceptsAny(body) == TRUE

\* insertProductSchema: currentStock is z.coerce.number().min(0).default(0)
schemaAccepts(body) ==
    IF body.currentStock = Absent THEN TRUE ELSE body.currentStock[1] >= 0

WithDefault(opt, d) == IF opt = Absent THEN d ELSE opt[1]

\* storage.createProduct: one INSERT ... RETURNING, ids are AUTOINCREMENT
createProduct(prods, productData) ==
    Append(prods, [currentStock |-> productData.currentStock, isActive |-> 1])

\* storage.createMovement: one INSERT into movements
createMovement(movs, movement) == Append(movs, movement)

\* storage.updateProduct: UPDATE products SET ...body WHERE id = :id
updateProduct(prods, id, body) ==
    IF id \notin DOMAIN prods THEN prods
    ELSE [prods EXCEPT ![id] =
            [currentStock |-> WithDefault(body.currentStock, @.currentStock),
             isActive |-> WithDefault(body.isActive, @.isActive)]]

\* storage.getProduct: SELECT ... FROM products WHERE id = :id, whatever
\* is_active; the row, or nothing
getProduct(prods, id) == IF id \in DOMAIN prods THEN <<prods[id]>> ELSE Absent

\* a delete that also empties the stock
deleteProductZeroing(prods, id) ==
    IF id \notin DOMAIN prods THEN prods
    ELSE [prods EXCEPT ![id].isActive = 0, ![id].currentStock = 0]

\* storage.deleteProduct: UPDATE products SET is_active = 0 WHERE id = :id
deleteProduct(prods, id) ==
    IF id \notin DOMAIN prods THEN prods
    ELSE [prods EXCEPT ![id].isActive = 0]

\* a stock computation that adds whatever the direction
NewStockAlwaysAdds(previousStock, quantity, type) == previousStock + quantity

\* a stock computation that ignores an OUT
NewStockOutIgnored(previousStock, quantity, type) ==
    IF type = "IN" THEN previousStock + quantity ELSE previousStock

\* updateStock, line 908
NewStock(previousStock, quantity, type) ==
    IF type = "IN" THEN previousStock + quantity ELSE previousStock - quantity

\* an updateStock without the throw of line 910
InsufficientStockNever(newStock) == FALSE

\* updateStock, line 910
InsufficientStock(newStock) == newStock < 0

\* a row with the two snapshots exchanged
MovementRowSwapped(productId, type, quantity, previousStock, newStock, reason, userId) ==
    [productId |-> productId, type |-> type, quantity |-> quantity,
     previousStock |-> newStock, newStock |-> previousStock,
     reason |-> OrNull(reason), userId |-> OrNull(userId)]

\* updateStock, lines 921-930: the row handed to tx.insert(movements)
MovementRow(productId, type, quantity, previousStock, newStock, reason, userId) ==
    [productId |-> productId, type |-> type, quantity |-> quantity,
     previousStock |-> previousStock, newStock |-> newStock,
     reason |-> OrNull(reason), userId |-> OrNull(userId)]

\* movements.user_id REFERENCES users(id)
ForeignKeyOk(userId) == IF OrNull(userId) = "null" THEN TRUE ELSE userId \in Users

\* an updateStock whose commit keeps the INSERT and loses the UPDATE
updateStockRowOnly(prods, movs, productId, quantity, type, reason, userId) ==
    IF productId \notin DOMAIN prods
    THEN [err |-> "Product not found", products |-> prods, movements |-> movs]
    ELSE LET previousStock == prods[productId].currentStock
             newStock == NewStock(previousStock, quantity, type)
         IN IF InsufficientStock(newStock)
            THEN [err |-> "Insufficient stock", products |-> prods, movements |-> movs]
            ELSE [err |-> "", products |-> prods,
                  movements |-> Append(movs, MovementRow(productId, type, quantity,
                                         previousStock, newStock, reason, userId))]

\* an updateStock whose INSERT replaces the rows the table holds
updateStockRewriting(prods, movs, productId, quantity, type, reason, userId) ==
    IF productId \notin DOMAIN prods
    THEN [err |-> "Product not found", products |-> prods, movements |-> movs]
    ELSE LET previousStock == prods[productId].currentStock
             newStock == NewStock(previousStock, quantity, type)
         IN IF InsufficientStock(newStock)
            THEN [err |-> "Insufficient stock", products |-> prods, movements |-> movs]
            ELSE [err |-> "",
                  products |-> [prods EXCEPT ![productId].currentStock = newStock],
                  movements |-> <<MovementRow(productId, type, quantity,
                                              previousStock, newStock, reason, userId)>>]

\* DatabaseStorage.updateStock run on its own: the transaction's body and its
\* commit or rollback.  err = "" when it commits.
updateStock(prods, movs, productId, quantity, type, reason, userId) ==
    IF productId \notin DOMAIN prods
    THEN [err |-> "Product not found", products |-> prods, movements |-> movs]
    ELSE LET previousStock == prods[productId].currentStock
             newStock == NewStock(previousStock, quantity, type)
             txProducts == [prods EXCEPT ![productId].currentStock = newStock]
             txMovements == Append(movs, MovementRow(productId, type, quantity,
                                       previousStock, newStock, reason, userId))
         IN IF InsufficientStock(newStock)
            THEN [err |-> "Insufficient stock", products |-> prods, movements |-> movs]
            ELSE IF ~ForeignKeyOk(userId)
            THEN [err |-> "FOREIGN KEY constraint failed",
                  products |-> prods, movements |-> movs]
            ELSE [err |-> "", products |-> txProducts, movements |-> txMovements]

\* POST /api/products/:id/stock, line 487
InvalidStockUpdate(quantity, type) ==
    IF quantity = 0 THEN TRUE ELSE IF type = "" THEN TRUE ELSE type \notin MovementTypes

\* ------------------------------------------------- the routes, sequential
\* a request slot of the concurrent specifications: the position of one
\* POST /api/products/:id/stock handler and the locals of its updateStock call
Idle ==
    [pc |-> "idle", productId |-> 0, quantity |-> 0, type |-> "", userId |-> "",
     previousStock |-> 0, newStock |-> 0, status |-> 0, message |-> ""]

Init ==
    /\ products = << >>
    /\ movements = << >>
    /\ response = Response(0, "")
    /\ calls = [c \in CallIds |-> Idle]
    /\ pendingInitial = << >>
    /\ zones = << >>

\* the tables stay inside the model's bounds
WithinBounds(prods, movs) ==
    /\ DOMAIN prods \subseteq ProductIds
    /\ Len(movs) <= MaxMovements
    /\ \A p \in DOMAIN prods : prods[p].currentStock <= MaxStock

\* a POST /api/products without the createMovement of lines 433-443
PostProductsUnlogged(body, user) ==
    IF ~schemaAccepts(body)
    THEN /\ response' = Response(400, "Invalid product data")
         /\ UNCHANGED <<products, movements>>
    ELSE LET productData == [currentStock |-> WithDefault(body.currentStock, 0)]
             created == createProduct(products, productData)
         IN /\ WithinBounds(created, movements)
            /\ products' = created
            /\ response' = Response(201, "")
            /\ UNCHANGED movements

\* POST /api/products
PostProducts(body, user) ==
    IF ~schemaAccepts(body)
    THEN /\ response' = Response(400, "Invalid product data")
         /\ UNCHANGED <<products, movements>>
    ELSE LET productData == [currentStock |-> WithDefault(body.currentStock, 0)]
             id == Len(products) + 1
             created == createProduct(products, productData)
             logged == IF productData.currentStock > 0
                       THEN createMovement(movements,
                              MovementRow(id, "IN", productData.currentStock, 0,
                                          productData.currentStock, "Initial stock", user))
                       ELSE movements
         IN /\ WithinBounds(created, logged)
            /\ products' = created
            /\ movements' = logged
            /\ response' = Response(201, "")

\* PUT /api/products/:id
PutProduct(id, body) ==
    IF ~schemaAccepts(body)
    THEN /\ response' = Response(400, "Invalid product data")
         /\ UNCHANGED <<products, movements>>
    ELSE /\ WithinBounds(updateProduct(products, id, body), movements)
         /\ products' = updateProduct(products, id, body)
         /\ response' = Response(200, "")
         /\ UNCHANGED movements

\* DELETE /api/products/:id
DeleteProduct(id) ==
    /\ products' = deleteProduct(products, id)
    /\ response' = Response(204, "")
    /\ UNCHANGED movements

\* POST /api/products/:id/stock
PostStock(id, quantity, type, reason, user) ==
    IF InvalidStockUpdate(quantity, type)
    THEN /\ response' = Response(400, "Invalid stock update data")
         /\ UNCHANGED <<products, movements>>
    ELSE LET r == updateStock(products, movements, id, quantity, type, reason, user)
         IN /\ WithinBounds(r.products, r.movements)
            /\ products' = r.products
            /\ movements' = r.movements
            /\ response' = IF r.err = "" THEN StockUpdated
                           ELSE Response(500, r.err)

ProductBodies == [currentStock : Opt(StockInputs)]
PartialBodies == [currentStock : Opt(StockInputs), isActive : Opt({0, 1})]

CreateStep ==
    /\ \E body \in ProductBodies, user \in Users : PostProducts(body, user)
    /\ UNCHANGED <<calls, pendingInitial, zones>>
PutStep ==
    /\ \E id \in RequestIds, body \in PartialBodies : PutProduct(id, body)
    /\ UNCHANGED <<calls, pendingInitial, zones>>
DeleteStep ==
    /\ \E id \in RequestIds : DeleteProduct(id)
    /\ UNCHANGED <<calls, pendingInitial, zones>>
StockStep ==
    /\ \E id \in RequestIds, quantity \in Quantities, type \in RequestTypes,
          reason \in Reasons, user \in Users : PostStock(id, quantity, type, reason, user)
    /\ UNCHANGED <<calls, pendingInitial, zones>>

\* sequences of POST /api/products, DELETE and stock updates; PUT, which sets
\* currentStock without a movement, is interleaved in SpecApi
Next == CreateStep \/ DeleteStep \/ StockStep

Spec == Init /\ [][Next]_vars

\* ------------------------------------- concurrent requests, SQLite build
\* db.transaction: the libsql client opens the transaction with BEGIN
\* IMMEDIATE, which takes the database's write lock until COMMIT or ROLLBACK.
\* A slot is inside its transaction from the BEGIN to the COMMIT or ROLLBACK.
\* a write lock that a call holds already while it waits to begin
TxStatesWithBegin == {"begin", "select", "update", "insert", "commit", "rollback"}

TxStates == {"select", "update", "insert", "commit", "rollback"}

WriterActive == \E c \in CallIds : calls[c].pc \in TxStates

Free(c) == calls[c].pc = "idle"

\* the handler has answered: the slot is free again
Done(status, message) == Idle

TxWithinBounds(prods, movs) ==
    /\ DOMAIN prods \subseteq TxProductIds
    /\ Len(movs) <= MaxTxMovements
    /\ \A p \in DOMAIN prods : prods[p].currentStock <= MaxStock

\* rows the requests in flight may still append
InFlight == Cardinality({c \in CallIds : ~Free(c)}) + Len(pendingInitial)

\* POST /api/products/:id/stock, lines 484-491: the handler up to updateStock
StartStock(c, id, quantity, type, user) ==
    /\ Free(c)
    /\ \A d \in CallIds : d < c => ~Free(d)
    /\ Len(movements) + InFlight < MaxTxMovements
    /\ calls' = [calls EXCEPT ![c] =
         IF InvalidStockUpdate(quantity, type)
         THEN Done(400, "Invalid stock update data")
         ELSE [Idle EXCEPT !.pc = "begin", !.productId = id, !.quantity = quantity,
                           !.type = type, !.userId = user]]
    /\ UNCHANGED <<products, movements, response, pendingInitial, zones>>

\* updateStock, line 902: BEGIN IMMEDIATE waits for the write lock
TxBegin(c) ==
    /\ calls[c].pc = "begin"
    /\ ~WriterActive
    /\ calls' = [calls EXCEPT ![c].pc = "select"]
    /\ UNCHANGED <<products, movements, response, pendingInitial, zones>>

\* updateStock, lines 904-912: the SELECT and the two throws
TxSelect(c) ==
    /\ calls[c].pc = "select"
    /\ LET id == calls[c].productId IN
       IF id \notin DOMAIN products
       THEN calls' = [calls EXCEPT ![c].pc = "rollback", ![c].message = "Product not found"]
       ELSE LET previousStock == products[id].currentStock
                newStock == NewStock(previousStock, calls[c].quantity, calls[c].type)
            IN /\ newStock <= MaxStock
               /\ calls' = [calls EXCEPT ![c] =
                    IF InsufficientStock(newStock)
                    THEN [@ EXCEPT !.pc = "rollback", !.message = "Insufficient stock"]
                    ELSE [@ EXCEPT !.pc = "update", !.previousStock = previousStock,
                                   !.newStock = newStock]]
    /\ UNCHANGED <<products, movements, response, pendingInitial, zones>>

\* an UPDATE the other connections see at once
ProductsWrittenThrough(prods, id, newStock) ==
    [prods EXCEPT ![id].currentStock = newStock]

\* what the other connections see of the products table once the
\* transaction's UPDATE has run: nothing before the COMMIT
ProductsAfterTxUpdate(prods, id, newStock) == prods

\* updateStock, lines 915-918: UPDATE products inside the transaction
TxUpdate(c) ==
    /\ calls[c].pc = "update"
    /\ calls' = [calls EXCEPT ![c].pc = "insert"]
    /\ products' = ProductsAfterTxUpdate(products, calls[c].productId, calls[c].newStock)
    /\ UNCHANGED <<movements, response, pendingInitial, zones>>

\* updateStock, lines 921-930: INSERT INTO movements inside the transaction
TxInsert(c) ==
    /\ calls[c].pc = "insert"
    /\ calls' = [calls EXCEPT ![c] =
         IF ForeignKeyOk(calls[c].userId)
         THEN [@ EXCEPT !.pc = "commit"]
         ELSE [@ EXCEPT !.pc = "rollback", !.message = "FOREIGN KEY constraint failed"]]
    /\ UNCHANGED <<products, movements, response, pendingInitial, zones>>

\* a row whose newStock repeats previousStock
TxRowStale(call) ==
    MovementRow(call.productId, call.type, call.quantity, call.previousStock,
                call.previousStock, "restock", call.userId)

\* the row of a slot's transaction
TxRow(call) ==
    MovementRow(call.productId, call.type, call.quantity, call.previousStock,
                call.newStock, "restock", call.userId)

\* db.transaction: COMMIT publishes both writes and releases the write lock
TxCommit(c) ==
    /\ calls[c].pc = "commit"
    /\ products' = [products EXCEPT ![calls[c].productId].currentStock = calls[c].newStock]
    /\ movements' = Append(movements, TxRow(calls[c]))
    /\ calls' = [calls EXCEPT ![c] = Done(200, "Stock updated successfully")]
    /\ UNCHANGED <<response, pendingInitial, zones>>

\* a ROLLBACK that keeps the transaction's UPDATE
RolledBackPartial(prods, movs, call) ==
    [products |-> IF call.productId \in DOMAIN prods
                  THEN [prods EXCEPT ![call.productId].currentStock = call.newStock]
                  ELSE prods,
     movements |-> movs]

\* what a ROLLBACK leaves of the tables: the committed state, whatever the
\* call wrote inside its transaction
RolledBack(prods, movs, call) == [products |-> prods, movements |-> movs]

\* db.transaction: the callback threw, ROLLBACK; the route answers 500
TxRollback(c) ==
    /\ calls[c].pc = "rollback"
    /\ products' = RolledBack(products, movements, calls[c]).products
    /\ movements' = RolledBack(products, movements, calls[c]).movements
    /\ calls' = [calls EXCEPT ![c] = Done(500, calls[c].message)]
    /\ UNCHANGED <<response, pendingInitial, zones>>

\* POST /api/products, lines 429-430: the parse and createProduct
ApiCreateProduct(body, user) ==
    /\ ~WriterActive
    /\ pendingInitial = << >>
    /\ schemaAccepts(body)
    /\ LET productData == [currentStock |-> WithDefault(body.currentStock, 0)]
           id == Len(products) + 1
           created == createProduct(products, productData)
       IN /\ TxWithinBounds(created, movements)
          /\ products' = created
          /\ pendingInitial' =
               IF productData.currentStock > 0
               THEN <<MovementRow(id, "IN", productData.currentStock, 0,
                                  productData.currentStock, "Initial stock", user)>>
               ELSE << >>
          /\ productData.currentStock > 0 => Len(movements) + InFlight < MaxTxMovements
    /\ UNCHANGED <<movements, response, calls, zones>>

\* POST /api/products, lines 433-443: createMovement, a statement of its own
ApiCreateMovement ==
    /\ ~WriterActive
    /\ pendingInitial # << >>
    /\ movements' = createMovement(movements, pendingInitial[1])
    /\ pendingInitial' = << >>
    /\ UNCHANGED <<products, response, calls, zones>>

\* PUT /api/products/:id
ApiPutProduct(id, body) ==
    /\ ~WriterActive
    /\ schemaAccepts(body)
    /\ TxWithinBounds(updateProduct(products, id, body), movements)
    /\ products' = updateProduct(products, id, body)
    /\ UNCHANGED <<movements, response, calls, pendingInitial, zones>>

\* DELETE /api/products/:id
ApiDeleteProduct(id) ==
    /\ ~WriterActive
    /\ products' = deleteProduct(products, id)
    /\ UNCHANGED <<movements, response, calls, pendingInitial, zones>>

TxStep == \E c \in CallIds : TxBegin(c) \/ TxSelect(c) \/ TxUpdate(c) \/ TxInsert(c)
                              \/ TxCommit(c) \/ TxRollback(c)

NextApi ==
    \/ \E c \in CallIds, id \in TxRequestIds, quantity \in Quantities,
          type \in RequestTypes, user \in Users : StartStock(c, id, quantity, type, user)
    \/ TxStep
    \/ \E body \in ProductBodies, user \in Users : ApiCreateProduct(body, user)
    \/ ApiCreateMovement
    \/ \E id \in TxRequestIds, body \in PartialBodies : ApiPutProduct(id, body)
    \/ \E id \in TxRequestIds : ApiDeleteProduct(id)

SpecApi == Init /\ [][NextApi]_vars

\* --------------------------- concurrent calls of the storage interface
\* storage.updateStock(productId, quantity, type, reason, userId) called
\* directly: no route guard, any userId
CallUpdateStock(c, id, quantity, type, userId) ==
    /\ Free(c)
    /\ \A d \in CallIds : d < c => ~Free(d)
    /\ Len(movements) + InFlight < MaxTxMovements
    /\ calls' = [calls EXCEPT ![c] =
         [Idle EXCEPT !.pc = "begin", !.productId = id, !.quantity = quantity,
                      !.type = type, !.userId = userId]]
    /\ UNCHANGED <<products, movements, response, pendingInitial, zones>>

\* storage.createProduct(product) with a product the route's schema accepts
CallCreateProduct(productData) ==
    /\ ~WriterActive
    /\ TxWithinBounds(createProduct(products, productData), movements)
    /\ products' = createProduct(products, productData)
    /\ UNCHANGED <<movements, response, calls, pendingInitial, zones>>

NextStorage ==
    \/ \E c \in CallIds, id \in TxRequestIds, quantity \in Quantities,
          type \in MovementTypes, userId \in UserIdArgs :
            CallUpdateStock(c, id, quantity, type, userId)
    \/ TxStep
    \/ \E stock \in {n \in StockInputs : n >= 0} : CallCreateProduct([currentStock |-> stock])

SpecStorage == Init /\ [][NextStorage]_vars

\* ------------------------------- concurrent requests, PostgreSQL variant
\* db.transaction on PostgreSQL: READ COMMITTED, the SELECT takes no lock,
\* the UPDATE takes the row's lock until COMMIT or ROLLBACK.
PgStockInputs == {0 - 1, 0, 1}

PgRowLocked(id) ==
    \E c \in CallIds :
      /\ calls[c].productId = id
      /\ \/ calls[c].pc \in {"insert", "commit"}
         \/ calls[c].pc = "rollback" /\ calls[c].message = "violates foreign key constraint"

\* POST /api/products on the PostgreSQL variant: its insertProductSchema has
\* no min(0)
PgPostProducts(body, user) ==
    LET productData == [currentStock |-> WithDefault(body.currentStock, 0)]
        id == Len(products) + 1
        created == createProduct(products, productData)
        logged == IF productData.currentStock > 0
                  THEN createMovement(movements,
                         MovementRow(id, "IN", productData.currentStock, 0,
                                     productData.currentStock, "Initial stock", user))
                  ELSE movements
    IN /\ TxWithinBounds(created, logged)
       /\ Len(logged) + InFlight <= MaxTxMovements
       /\ products' = created
       /\ movements' = logged
       /\ UNCHANGED <<response, calls, pendingInitial, zones>>

\* POST /api/products/:id/stock, PostgreSQL variant: db.transaction starts
PgStartStock(c, id, quantity, type, user) ==
    /\ Free(c)
    /\ \A d \in CallIds : d < c => ~Free(d)
    /\ Len(movements) + InFlight < MaxTxMovements
    /\ ~InvalidStockUpdate(quantity, type)
    /\ calls' = [calls EXCEPT ![c] =
         [Idle EXCEPT !.pc = "select", !.productId = id, !.quantity = quantity,
                      !.type = type, !.userId = user]]
    /\ UNCHANGED <<products, movements, response, pendingInitial, zones>>

\* updateStock (PostgreSQL), lines 378-386
PgSelect(c) ==
    /\ calls[c].pc = "select"
    /\ LET id == calls[c].productId IN
       IF id \notin DOMAIN products
       THEN calls' = [calls EXCEPT ![c].pc = "rollback", ![c].message = "Product not found"]
       ELSE LET previousStock == products[id].currentStock
                newStock == NewStock(previousStock, calls[c].quantity, calls[c].type)
            IN /\ newStock <= MaxStock
               /\ calls' = [calls EXCEPT ![c] =
                    IF InsufficientStock(newStock)
                    THEN [@ EXCEPT !.pc = "rollback", !.message = "Insufficient stock"]
                    ELSE [@ EXCEPT !.pc = "update", !.previousStock = previousStock,
                                   !.newStock = newStock]]
    /\ UNCHANGED <<products, movements, response, pendingInitial, zones>>

\* updateStock (PostgreSQL), lines 389-392: the UPDATE waits for the row lock
PgUpdate(c) ==
    /\ calls[c].pc = "update"
    /\ ~PgRowLocked(calls[c].productId)
    /\ calls' = [calls EXCEPT ![c].pc = "insert"]
    /\ UNCHANGED <<products, movements, response, pendingInitial, zones>>

\* updateStock (PostgreSQL), lines 395-403
PgInsert(c) ==
    /\ calls[c].pc = "insert"
    /\ calls' = [calls EXCEPT ![c] =
         IF ForeignKeyOk(calls[c].userId)
         THEN [@ EXCEPT !.pc = "commit"]
         ELSE [@ EXCEPT !.pc = "rollback", !.message = "violates foreign key constraint"]]
    /\ UNCHANGED <<products, movements, response, pendingInitial, zones>>

\* db.transaction (PostgreSQL): COMMIT
PgCommit(c) ==
    /\ calls[c].pc = "commit"
    /\ products' = [products EXCEPT ![calls[c].productId].currentStock = calls[c].newStock]
    /\ movements' = Append(movements, TxRow(calls[c]))
    /\ calls' = [calls EXCEPT ![c] = Done(200, "Stock updated successfully")]
    /\ UNCHANGED <<response, pendingInitial, zones>>

\* db.transaction (PostgreSQL): ROLLBACK
PgRollback(c) ==
    /\ calls[c].pc = "rollback"
    /\ calls' = [calls EXCEPT ![c] = Done(500, calls[c].message)]
    /\ UNCHANGED <<products, movements, response, pendingInitial, zones>>

NextPg ==
    \/ \E body \in [currentStock : Opt(PgStockInputs)], user \in Users : PgPostProducts(body, user)
    \/ \E c \in CallIds, id \in TxRequestIds, quantity \in Quantities,
          type \in MovementTypes, user \in Users : PgStartStock(c, id, quantity, type, user)
    \/ \E c \in CallIds : PgSelect(c) \/ PgUpdate(c) \/ PgInsert(c) \/ PgCommit(c) \/ PgRollback(c)

SpecPg == Init /\ [][NextPg]_vars

\* ------------------- concurrent withdrawals, PostgreSQL variant
\* The requests that take stock out of a product created with a starting
\* stock: the initial movement and two withdrawals make three rows.
WithdrawalMovementIds == {1, 2, 3}
WithdrawalQuantities == {q \in Quantities : q > 0}

\* POST /api/products/:id/stock with type OUT, PostgreSQL variant
PgStartWithdrawal(c, id, quantity, user) ==
    /\ Free(c)
    /\ \A d \in CallIds : d < c => ~Free(d)
    /\ Len(movements) + InFlight < Cardinality(WithdrawalMovementIds)
    /\ ~InvalidStockUpdate(quantity, "OUT")
    /\ calls' = [calls EXCEPT ![c] =
         [Idle EXCEPT !.pc = "select", !.productId = id, !.quantity = quantity,
                      !.type = "OUT", !.userId = user]]
    /\ UNCHANGED <<products, movements, response, pendingInitial, zones>>

NextPgWithdrawal ==
    \/ \E body \in [currentStock : Opt(PgStockInputs)], user \in Users : PgPostProducts(body, user)
    \/ \E c \in CallIds, id \in TxRequestIds, quantity \in WithdrawalQuantities, user \in Users :
         PgStartWithdrawal(c, id, quantity, user)
    \/ \E c \in CallIds : PgSelect(c) \/ PgUpdate(c) \/ PgInsert(c) \/ PgCommit(c) \/ PgRollback(c)

SpecPgWithdrawal == Init /\ [][NextPgWithdrawal]_vars

\* ------------------- a finite number of concurrent updateStock calls
\* The calls have been made and none has begun its transaction; each slot
\* holds a call or is free.  No call is added, and the scheduler is fair to
\* every call.
StartedCalls ==
    {Idle} \cup {[Idle EXCEPT !.pc = "begin", !.productId = id, !.quantity = q,
                              !.type = type, !.userId = user] :
                   id \in TxRequestIds, q \in WithdrawalQuantities, type \in MovementTypes,
                   user \in Users}

\* the quantity the calls may add to product p
Incoming(cs, p) ==
    LET add(c) == IF cs[c].pc = "begin" /\ cs[c].productId = p /\ cs[c].type = "IN"
                  THEN cs[c].quantity ELSE 0
    IN add(1) + add(2)

InitFinite ==
    /\ products \in UNION {[1..n -> [currentStock : 0..MaxStock, isActive : {1}]] :
                             n \in TxRequestIds}
    /\ calls \in [CallIds -> StartedCalls]
    /\ \A p \in DOMAIN products : products[p].currentStock + Incoming(calls, p) <= MaxStock
    /\ movements = << >>
    /\ response = Response(0, "")
    /\ pendingInitial = << >>
    /\ zones = << >>

CallStep(c) ==
    TxBegin(c) \/ TxSelect(c) \/ TxUpdate(c) \/ TxInsert(c) \/ TxCommit(c) \/ TxRollback(c)

SpecFinite == InitFinite /\ [][TxStep]_vars /\ \A c \in CallIds : WF_vars(CallStep(c))

\* ------------------------------------- the routes with PUT and the zones
\* the ids the zones table hands out; the names a request gives a zone
ZoneIds == {1}
ZoneNames == {"A"}

\* insertZoneSchema: name is required
zoneSchemaAccepts(body) == body.name # Absent

\* storage.createZone: one INSERT ... RETURNING, ids are AUTOINCREMENT.  A row
\* keeps its place in the sequence when it is deleted, so that its id is not
\* handed out again.
createZone(zs, zone) == Append(zs, [name |-> zone.name, present |-> TRUE])

\* storage.deleteZone: DELETE FROM zones WHERE id = :id
deleteZone(zs, id) ==
    IF id \notin DOMAIN zs THEN zs ELSE [zs EXCEPT ![id].present = FALSE]

\* POST /api/zones
PostZones(body) ==
    IF ~zoneSchemaAccepts(body)
    THEN /\ response' = Response(400, "Invalid zone data")
         /\ UNCHANGED zones
    ELSE /\ zones' = createZone(zones, [name |-> body.name[1]])
         /\ response' = Response(201, "")

\* DELETE /api/zones/:id
DeleteZone(id) ==
    /\ zones' = deleteZone(zones, id)
    /\ response' = Response(204, "")

CreateZoneStep ==
    /\ \E body \in [name : Opt(ZoneNames)] : PostZones(body)
    /\ DOMAIN zones' \subseteq ZoneIds
    /\ UNCHANGED <<products, movements, calls, pendingInitial>>
DeleteZoneStep ==
    /\ \E id \in ZoneIds : DeleteZone(id)
    /\ UNCHANGED <<products, movements, calls, pendingInitial>>

\* this specification follows one products row, like the interleaved ones,
\* and the first two rows of the movements table
AdminMovementIds == {1, 2}

AdminWithinBounds(prods, movs) ==
    /\ DOMAIN prods \subseteq TxProductIds
    /\ DOMAIN movs \subseteq AdminMovementIds
    /\ \A p \in DOMAIN prods : prods[p].currentStock <= MaxStock

AdminCreateStep == CreateStep /\ AdminWithinBounds(products', movements')
AdminPutStep == PutStep /\ AdminWithinBounds(products', movements')
AdminDeleteStep == DeleteStep /\ AdminWithinBounds(products', movements')
AdminStockStep == StockStep /\ AdminWithinBounds(products', movements')

NextAdmin ==
    \/ AdminCreateStep \/ AdminPutStep \/ AdminDeleteStep \/ AdminStockStep
    \/ CreateZoneStep \/ DeleteZoneStep

SpecAdmin == Init /\ [][NextAdmin]_vars

\* ------------------------------------------------------- the read queries
\* The queries are functions of the tables.  SpecRead draws the tables from
\* the rows the write routes can produce and applies the queries to them; a
\* products row carries here the columns the queries read.  A string is a
\* sequence of characters; zoneId 0 stands for NULL; unitPrice, a REAL
\* column, is counted in halves of a currency unit.
ReadRowIds == {1, 2}

\* the tables of up to Cardinality(ReadRowIds) rows drawn from rows
TablesOf(rows) == UNION {[1..n -> rows] : n \in {0} \cup ReadRowIds}

DefaultProduct ==
    [name |-> <<"a">>, productId |-> <<"a">>, category |-> <<"b">>, zoneId |-> 0,
     currentStock |-> 0, minStock |-> 0, unitPrice |-> 0, isActive |-> 1]

\* SQLite's LIKE folds the case of the ASCII letters
Lower(c) == IF c = "A" THEN "a" ELSE IF c = "B" THEN "b" ELSE c

RECURSIVE Like(_, _)
\* text LIKE pattern: % matches any run of characters, _ any one character
Like(pattern, text) ==
    IF pattern = << >> THEN text = << >>
    ELSE IF Head(pattern) = "%"
         THEN IF Like(Tail(pattern), text) THEN TRUE
              ELSE IF text = << >> THEN FALSE ELSE Like(pattern, Tail(text))
         ELSE IF text = << >> THEN FALSE
              ELSE IF Head(pattern) = "_" THEN Like(Tail(pattern), Tail(text))
              ELSE IF Lower(Head(pattern)) = Lower(Head(text))
                   THEN Like(Tail(pattern), Tail(text))
                   ELSE FALSE

\* getProducts, lines 645-653: like(column, `%${filters.search}%`)
SearchPattern(search) == <<"%">> \o search \o <<"%">>

\* a status filter that counts a stock equal to the minimum as in stock
StatusConditionStrict(status, row) ==
    IF status = "in_stock" THEN row.currentStock >= row.minStock
    ELSE IF status = "low_stock"
         THEN IF row.currentStock < row.minStock THEN row.currentStock > 0 ELSE FALSE
    ELSE IF status = "out_of_stock" THEN row.currentStock = 0
    ELSE TRUE

\* getProducts, lines 655-672: the condition the status filter pushes
StatusCondition(status, row) ==
    IF status = "in_stock" THEN row.currentStock > row.minStock
    ELSE IF status = "low_stock"
         THEN IF row.currentStock <= row.minStock THEN row.currentStock > 0 ELSE FALSE
    ELSE IF status = "out_of_stock" THEN row.currentStock = 0
    ELSE TRUE

\* getProducts, lines 635-672: the conjunction of the conditions; a filter
\* that is missing, empty or 0 pushes no condition
ProductMatches(row, filters) ==
    /\ row.isActive = 1
    /\ IF filters.category = Absent THEN TRUE
       ELSE IF filters.category[1] = << >> THEN TRUE
       ELSE row.category = filters.category[1]
    /\ IF filters.zoneId = Absent THEN TRUE
       ELSE IF filters.zoneId[1] = 0 THEN TRUE
       ELSE row.zoneId = filters.zoneId[1]
    /\ IF filters.search = Absent THEN TRUE
       ELSE IF filters.search[1] = << >> THEN TRUE
       ELSE IF Like(SearchPattern(filters.search[1]), row.name) THEN TRUE
       ELSE IF Like(SearchPattern(filters.search[1]), row.productId) THEN TRUE
       ELSE Like(SearchPattern(filters.search[1]), row.category)
    /\ IF filters.status = Absent THEN TRUE
       ELSE StatusCondition(filters.status[1], row)

\* the code of a character in the BINARY collation
CharCode(c) ==
    IF c = "%" THEN 37 ELSE IF c = "A" THEN 65 ELSE IF c = "B" THEN 66
    ELSE IF c = "_" THEN 95 ELSE IF c = "a" THEN 97 ELSE 98

RECURSIVE StringLeq(_, _)
\* s <= t in the BINARY collation
StringLeq(s, t) ==
    IF s = << >> THEN TRUE
    ELSE IF t = << >> THEN FALSE
    ELSE IF CharCode(Head(s)) < CharCode(Head(t)) THEN TRUE
    ELSE IF CharCode(Head(s)) > CharCode(Head(t)) THEN FALSE
    ELSE StringLeq(Tail(s), Tail(t))

\* the orders in which a query may return the rows ids: every arrangement
\* that the relation leq allows (ORDER BY leaves the order of equal keys open)
Arrangements(ids, leq) ==
    {r \in [1..Cardinality(ids) -> ids] :
       /\ \A i, j \in DOMAIN r : i # j => r[i] # r[j]
       /\ \A i, j \in DOMAIN r : i < j => <<r[i], r[j]>> \in leq}

\* GET /api/products without a query string
NoFilters == [category |-> Absent, zoneId |-> Absent, status |-> Absent, search |-> Absent]

\* DatabaseStorage.getProducts: the ids of the rows it may return, in order
getProducts(prods, filters) ==
    LET matching == {p \in DOMAIN prods : ProductMatches(prods[p], filters)}
        byName == {pair \in matching \X matching :
                     StringLeq(prods[pair[1]].name, prods[pair[2]].name)}
    IN Arrangements(matching, byName)

\* GET /api/products
GetProducts(filters) ==
    /\ \E rows \in getProducts(products, filters) :
         response' = [op |-> "getProducts", filters |-> filters, rows |-> rows]
    /\ UNCHANGED <<products, movements, calls, pendingInitial, zones>>

\* generateExcelReport, lines 95-96: the Status column of an inventory row
ReportStatus(row) ==
    IF row.currentStock > row.minStock THEN "In Stock"
    ELSE IF row.currentStock > 0 THEN "Low Stock"
    ELSE "Out of Stock"

\* GET /api/reports/export/excel: the Status cell of a row of the inventory
\* sheet, whose rows are those of getProducts
ExportStatus(p) ==
    /\ \E rows \in getProducts(products, NoFilters) : p \in {rows[i] : i \in DOMAIN rows}
    /\ response' = [op |-> "report", id |-> p, status |-> ReportStatus(products[p])]
    /\ UNCHANGED <<products, movements, calls, pendingInitial, zones>>

\* inventory-table.tsx: getStockStatus
getStockStatus(product) ==
    IF product.currentStock = 0 THEN "out_of_stock"
    ELSE IF product.currentStock <= product.minStock THEN "low_stock"
    ELSE "in_stock"

\* inventory table: the badge of a listed product
ShowBadge(p) ==
    /\ \E rows \in getProducts(products, NoFilters) : p \in {rows[i] : i \in DOMAIN rows}
    /\ response' = [op |-> "badge", id |-> p, status |-> getStockStatus(products[p])]
    /\ UNCHANGED <<products, movements, calls, pendingInitial, zones>>

\* the quantity field of the stock-movement dialog: the form's default (the
\* number 1), the digit the user typed (a string), or the emptied field
QuantityFields ==
    {[kind |-> "default", n |-> 1], [kind |-> "empty", n |-> 0]}
      \cup {[kind |-> "typed", n |-> n] : n \in 1..MaxStock}

\* StockMovementModal: getNewStock.  With a typed quantity, + appends the
\* digit to the stock and - subtracts its value.
getNewStock(product, movementType, quantity) ==
    IF quantity.kind = "empty" THEN product.currentStock
    ELSE IF movementType = "IN"
         THEN IF quantity.kind = "typed" THEN product.currentStock * 10 + quantity.n
              ELSE product.currentStock + quantity.n
         ELSE product.currentStock - quantity.n

\* StockMovementModal, lines 199-200: the label of the previewed stock
PreviewLabel(newStock, minStock) ==
    IF newStock < minStock THEN "(Below minimum)" ELSE "(Normal)"

\* stock-movement dialog: the preview line
ShowPreview(p, movementType, quantity) ==
    /\ \E rows \in getProducts(products, NoFilters) : p \in {rows[i] : i \in DOMAIN rows}
    /\ LET newStock == getNewStock(products[p], movementType, quantity)
       IN response' = [op |-> "preview", id |-> p, newStock |-> newStock,
                       label |-> PreviewLabel(newStock, products[p].minStock)]
    /\ UNCHANGED <<products, movements, calls, pendingInitial, zones>>

DefaultLimit == 50
RecentLimit == 10

\* getMovements, lines 786-809: the ids of the rows it may return, newest
\* createdAt first, at most limit of them; a productId that is missing or 0
\* pushes no condition
getMovements(movs, productId, limit) ==
    LET matching == {i \in DOMAIN movs :
                       IF productId = Absent THEN TRUE
                       ELSE IF productId[1] = 0 THEN TRUE
                       ELSE movs[i].productId = productId[1]}
        byCreatedAtDesc == {pair \in matching \X matching :
                              movs[pair[1]].createdAt >= movs[pair[2]].createdAt}
        shown == IF Cardinality(matching) <= limit THEN Cardinality(matching) ELSE limit
    IN {SubSeq(r, 1, shown) : r \in Arrangements(matching, byCreatedAtDesc)}

\* GET /api/movements
GetMovements(productId, limit) ==
    /\ \E rows \in getMovements(movements, productId, IF limit = Absent THEN DefaultLimit ELSE limit[1]) :
         response' = [op |-> "getMovements", productId |-> productId, limit |-> limit,
                      rows |-> rows]
    /\ UNCHANGED <<products, movements, calls, pendingInitial, zones>>

\* an inner join, which has no pair for a zone without a match
ZoneJoinInner(zs, prods) ==
    LET existing == {z \in DOMAIN zs : zs[z].present}
        matches(z) == {p \in DOMAIN prods : prods[p].zoneId = z /\ prods[p].isActive = 1}
    IN {pair \in existing \X (DOMAIN prods) : pair[2] \in matches(pair[1])}

\* getMovements, line 803: LEFT JOIN products ON movements.product_id =
\* products.id, the product of row i of the result
MovementProduct(prods, movs, i) == getProduct(prods, movs[i].productId)

\* createMovement and updateStock: createdAt is the clock at the append; here
\* one tick per append
WithCreatedAt(movs) ==
    [i \in DOMAIN movs |-> [productId |-> movs[i].productId, createdAt |-> i]]

\* getDashboardMetrics, lines 870-883: zones LEFT JOIN products ON zone_id
\* AND is_active = 1, one pair per match and a pair with 0 (NULL) for a zone
\* without a match
ZoneJoin(zs, prods) ==
    LET existing == {z \in DOMAIN zs : zs[z].present}
        matches(z) == {p \in DOMAIN prods : prods[p].zoneId = z /\ prods[p].isActive = 1}
    IN {pair \in existing \X (DOMAIN prods) : pair[2] \in matches(pair[1])}
         \cup {<<z, 0>> : z \in {y \in existing : matches(y) = {}}}

\* getDashboardMetrics, lines 878-883: GROUP BY zones.id, count(products.id),
\* ORDER BY zones.name
zoneStatus(zs, prods) ==
    LET joined == ZoneJoin(zs, prods)
        groups == {pair[1] : pair \in joined}
        itemCount(z) == Cardinality({pair \in joined : pair[1] = z /\ pair[2] # 0})
        byName == {pair \in groups \X groups :
                     StringLeq(<<zs[pair[1]].name>>, <<zs[pair[2]].name>>)}
    IN {[i \in DOMAIN r |-> [id |-> r[i], itemCount |-> itemCount(r[i])]] :
          r \in Arrangements(groups, byName)}

RECURSIVE SumValue(_, _)
\* sum(current_stock * unit_price) over the rows ids, in halves
SumValue(prods, ids) ==
    IF ids = {} THEN 0
    ELSE LET p == CHOOSE x \in ids : TRUE
         IN prods[p].currentStock * prods[p].unitPrice + SumValue(prods, ids \ {p})

\* getDashboardMetrics, line 863: cast(coalesce(sum(...), 0) as integer) drops
\* the fraction of the sum
CastAsInteger(halves) == halves \div 2

\* a dashboard whose three counts also count the soft-deleted products
getDashboardMetricsCountingDeleted(prods, zs, movs) ==
    LET active == {p \in DOMAIN prods : prods[p].isActive = 1}
    IN {[totalItems |-> Cardinality(DOMAIN prods),
         lowStockItems |-> Cardinality({p \in DOMAIN prods :
                              /\ prods[p].currentStock <= prods[p].minStock
                              /\ prods[p].currentStock > 0}),
         outOfStockItems |-> Cardinality({p \in DOMAIN prods : prods[p].currentStock = 0}),
         totalValue |-> CastAsInteger(SumValue(prods, active)),
         recentActivities |-> recent,
         zoneStatus |-> status] :
          recent \in getMovements(movs, Absent, RecentLimit), status \in zoneStatus(zs, prods)}

\* DatabaseStorage.getDashboardMetrics: the results it may return
getDashboardMetrics(prods, zs, movs) ==
    LET active == {p \in DOMAIN prods : prods[p].isActive = 1}
    IN {[totalItems |-> Cardinality(active),
         lowStockItems |-> Cardinality({p \in active :
                              /\ prods[p].currentStock <= prods[p].minStock
                              /\ prods[p].currentStock > 0}),
         outOfStockItems |-> Cardinality({p \in active : prods[p].currentStock = 0}),
         totalValue |-> CastAsInteger(SumValue(prods, active)),
         recentActivities |-> recent,
         zoneStatus |-> status] :
          recent \in getMovements(movs, Absent, RecentLimit), status \in zoneStatus(zs, prods)}

\* GET /api/dashboard/metrics, the tables at rest
GetDashboardMetrics ==
    /\ \E metrics \in getDashboardMetrics(products, zones, movements) :
         response' = [op |-> "getDashboardMetrics", metrics |-> metrics]
    /\ UNCHANGED <<products, movements, calls, pendingInitial, zones>>

\* the inputs of the status queries: stock and minimum of every level, active
\* and soft-deleted rows
StatusRows ==
    {[DefaultProduct EXCEPT !.currentStock = c, !.minStock = m, !.isActive = a] :
       c \in 0..MaxStock, m \in 0..MaxStock, a \in {0, 1}}

\* the second rows of the two-row tables: a row of minimum 1 without stock,
\* at its minimum or above it, active or soft-deleted
StatusSeconds ==
    {[DefaultProduct EXCEPT !.currentStock = c, !.minStock = 1, !.isActive = a] :
       c \in {0, 1, 2}, a \in {0, 1}}

\* the tables of no row, of one row of rows, and of a row of rows and one of seconds
TablesWith(rows, seconds) ==
    {<< >>} \cup {<<r>> : r \in rows} \cup {<<r, s>> : r \in rows, s \in seconds}

Statuses == {"all", "in_stock", "low_stock", "out_of_stock"}

StatusFilters == {[NoFilters EXCEPT !.status = s] : s \in Opt(Statuses)}

\* unit prices in halves: 0, 0.5, 1 and 1.5
Prices == 0..3

\* the inputs of the value query: stock and price of every level, active and
\* soft-deleted rows
ValueRows ==
    {[DefaultProduct EXCEPT !.currentStock = c, !.unitPrice = u, !.isActive = a] :
       c \in 0..MaxStock, u \in Prices, a \in {0, 1}}

ReadZoneIds == {1, 2}
ReadZoneNames == {"A", "B"}

\* the zones tables of up to two rows, deleted rows included
ZoneTables ==
    UNION {[1..n -> [name : ReadZoneNames, present : BOOLEAN]] : n \in {0} \cup ReadZoneIds}

\* the inputs of the zone query: products without a zone or in an existing
\* zone, active and soft-deleted
ZoneRows ==
    {[DefaultProduct EXCEPT !.zoneId = z, !.isActive = a] : z \in {0} \cup ReadZoneIds, a \in {0, 1}}

ZoneInputs ==
    LET existing(zs) == {z \in DOMAIN zs : zs[z].present}
    IN UNION {{[products |-> t, zones |-> zs, movements |-> << >>] :
                 t \in {u \in TablesOf(ZoneRows) :
                          \A p \in DOMAIN u : u[p].zoneId \in {0} \cup existing(zs)}} :
              zs \in ZoneTables}

ReadMovementIds == {1, 2, 3}

\* the values of Date.now(), in milliseconds, at the appends
Timestamps == {1, 2}

\* the movements tables of up to three rows, in the order of their appends:
\* createdAt is the clock at the append, so it does not decrease along the
\* table, and two appends within one millisecond have the same createdAt
MovementTables ==
    {t \in UNION {[1..n -> [productId : ReadRowIds, createdAt : Timestamps]] :
                    n \in {0} \cup ReadMovementIds} :
       \A i, j \in DOMAIN t : i < j => t[i].createdAt <= t[j].createdAt}

\* the inputs of the movement query: two products and their movements
MovementInputs ==
    {[products |-> [p \in ReadRowIds |-> DefaultProduct], zones |-> << >>, movements |-> t] :
       t \in MovementTables}

\* the productId and limit parameters of GET /api/movements
ProductIdParams == Opt({0} \cup ReadRowIds)
LimitParams == Opt({1, 2})

\* names and categories: letters of both cases and the underscore
SearchNames == {<<"a">>, <<"A", "b">>, <<"B">>, <<"a", "_">>}
SearchCategories == {<<"b">>, <<"A">>}

\* the inputs of the product search: one row with every column varied, or
\* two rows with their names varied; product_id is unique, zone 1 exists
SearchRows(productId, names, categories, zoneIds, stocks) ==
    {[DefaultProduct EXCEPT !.productId = productId, !.name = n, !.category = c,
                            !.zoneId = z, !.currentStock = s, !.isActive = a] :
       n \in names, c \in categories, z \in zoneIds, s \in stocks, a \in {0, 1}}

SearchInputs ==
    LET first(names, categories, zoneIds, stocks) ==
            SearchRows(<<"a">>, names, categories, zoneIds, stocks)
        second == SearchRows(<<"b">>, SearchNames, {<<"b">>}, {0}, {0})
        tables == {<<r>> : r \in first(SearchNames, SearchCategories, {0, 1}, {0, 1})}
                    \cup {<<r, s>> : r \in first(SearchNames, {<<"b">>}, {0}, {0}), s \in second}
    IN {[products |-> t, zones |-> <<[name |-> "A", present |-> TRUE]>>, movements |-> << >>] :
          t \in tables}

\* the query strings of GET /api/products
ProductFilters ==
    StatusFilters
      \cup {[category |-> c, zoneId |-> z, status |-> s, search |-> q] :
              c \in Opt({<<"A">>}), z \in Opt({1}), s \in Opt({"in_stock"}),
              q \in Opt({<<"B">>, <<"a", "b">>, <<"_">>})}

\* the second rows of the two-row tables: an active and a soft-deleted row
\* worth 1.5
ValueSeconds ==
    {[DefaultProduct EXCEPT !.currentStock = 1, !.unitPrice = 3, !.isActive = a] : a \in {0, 1}}

ReadInputs ==
    {[products |-> t, zones |-> << >>, movements |-> << >>] :
       t \in TablesWith(StatusRows, StatusSeconds)}
      \cup ZoneInputs
      \cup MovementInputs
      \cup SearchInputs
      \cup {[products |-> t, zones |-> << >>, movements |-> << >>] :
              t \in TablesWith(ValueRows, ValueSeconds)}

InitRead ==
    /\ \E input \in ReadInputs :
         /\ products = input.products
         /\ zones = input.zones
         /\ movements = input.movements
    /\ response = [op |-> "none"]
    /\ calls = [c \in CallIds |-> Idle]
    /\ pendingInitial = << >>

NextRead ==
    \/ \E filters \in ProductFilters : GetProducts(filters)
    \/ \E p \in ReadRowIds : ExportStatus(p)
    \/ \E p \in ReadRowIds : ShowBadge(p)
    \/ \E p \in ReadRowIds, movementType \in MovementTypes, quantity \in QuantityFields :
         ShowPreview(p, movementType, quantity)
    \/ GetDashboardMetrics
    \/ \E productId \in ProductIdParams, limit \in LimitParams : GetMovements(productId, limit)

SpecRead == InitRead /\ [][NextRead]_vars

\* ------------------------------- the catalogue under the tables' constraints
\* The product routes with the columns product_id and zone_id and the two
\* constraints on them: the unique index products_product_id_unique and the
\* foreign key zone_id REFERENCES zones(id), which db.ts switches on with
\* PRAGMA foreign_keys = ON.  A products row is a DefaultProduct with the
\* columns of the request; zoneId 0 stands for NULL.
ExternalIds == {<<"a">>, <<"b">>}

\* an index that leaves the soft-deleted rows out
UniqueOkAmongActive(prods, id, productId) ==
    \A p \in DOMAIN prods : p = id \/ prods[p].isActive = 0 \/ prods[p].productId # productId

\* CREATE UNIQUE INDEX products_product_id_unique: no row other than id has
\* the productId
UniqueOk(prods, id, productId) ==
    \A p \in DOMAIN prods : p = id \/ prods[p].productId # productId

\* FOREIGN KEY (zone_id) REFERENCES zones(id): NULL, or the id of a zones row
ZoneKeyOk(zs, zoneId) ==
    IF zoneId = 0 THEN TRUE
    ELSE IF zoneId \in DOMAIN zs THEN zs[zoneId].present ELSE FALSE

\* the rows of the products table that reference the zone, soft-deleted ones
\* included
ReferencedBy(prods, id) == {p \in DOMAIN prods : prods[p].zoneId = id}

\* a delete that the foreign key does not hold back
ZoneDeleteUnchecked(prods, id) == TRUE

\* ON DELETE no action: a zones row that a products row references stays
ZoneDeleteOk(prods, id) == ReferencedBy(prods, id) = {}

\* storage.createProduct under the constraints: err = "" when the INSERT is done
CatalogCreateProduct(prods, zs, product) ==
    IF ~UniqueOk(prods, 0, product.productId)
    THEN [err |-> "UNIQUE constraint failed: products.product_id", products |-> prods]
    ELSE IF ~ZoneKeyOk(zs, product.zoneId)
    THEN [err |-> "FOREIGN KEY constraint failed", products |-> prods]
    ELSE [err |-> "",
          products |-> Append(prods, [DefaultProduct EXCEPT !.productId = product.productId,
                                                            !.zoneId = product.zoneId,
                                                            !.currentStock = product.currentStock])]

\* storage.updateProduct under the constraints: the columns the body has are set
CatalogUpdateProduct(prods, zs, id, product) ==
    IF id \notin DOMAIN prods THEN [err |-> "", products |-> prods]
    ELSE LET productId == WithDefault(product.productId, prods[id].productId)
             zoneId == WithDefault(product.zoneId, prods[id].zoneId)
         IN IF ~UniqueOk(prods, id, productId)
            THEN [err |-> "UNIQUE constraint failed: products.product_id", products |-> prods]
            ELSE IF ~ZoneKeyOk(zs, zoneId)
            THEN [err |-> "FOREIGN KEY constraint failed", products |-> prods]
            ELSE [err |-> "",
                  products |-> [prods EXCEPT ![id].productId = productId, ![id].zoneId = zoneId]]

\* storage.deleteZone under the foreign key, which is ON DELETE no action
CatalogDeleteZone(zs, prods, id) ==
    IF ~ZoneDeleteOk(prods, id)
    THEN [err |-> "FOREIGN KEY constraint failed", zones |-> zs]
    ELSE [err |-> "", zones |-> deleteZone(zs, id)]

\* POST /api/products
CatalogPostProducts(body, user) ==
    LET productData == [productId |-> body.productId,
                        zoneId |-> WithDefault(body.zoneId, 0),
                        currentStock |-> WithDefault(body.currentStock, 0)]
        id == Len(products) + 1
        r == CatalogCreateProduct(products, zones, productData)
    IN IF r.err # ""
       THEN /\ response' = Response(500, "Failed to create product")
            /\ UNCHANGED <<products, movements>>
       ELSE /\ products' = r.products
            /\ movements' =
                 IF productData.currentStock > 0
                 THEN createMovement(movements,
                        MovementRow(id, "IN", productData.currentStock, 0,
                                    productData.currentStock, "Initial stock", user))
                 ELSE movements
            /\ response' = Response(201, "")

\* PUT /api/products/:id
CatalogPutProduct(id, body) ==
    LET r == CatalogUpdateProduct(products, zones, id, body)
    IN /\ products' = r.products
       /\ response' = IF r.err = "" THEN Response(200, "")
                      ELSE Response(500, "Failed to update product")
       /\ UNCHANGED movements

\* DELETE /api/zones/:id
CatalogDeleteZones(id) ==
    LET r == CatalogDeleteZone(zones, products, id)
    IN /\ zones' = r.zones
       /\ response' = IF r.err = "" THEN Response(204, "")
                      ELSE Response(500, "Failed to delete zone")

CatalogBodies == [productId : ExternalIds, zoneId : Opt(ReadZoneIds), currentStock : Opt({1})]
CatalogPartialBodies == [productId : Opt(ExternalIds), zoneId : Opt(ReadZoneIds)]

CatalogCreateStep ==
    /\ \E body \in CatalogBodies, user \in Users : CatalogPostProducts(body, user)
    /\ DOMAIN products' \subseteq ReadRowIds
    /\ UNCHANGED <<calls, pendingInitial, zones>>
CatalogPutStep ==
    /\ \E id \in ReadRowIds, body \in CatalogPartialBodies : CatalogPutProduct(id, body)
    /\ UNCHANGED <<calls, pendingInitial, zones>>
CatalogCreateZoneStep ==
    /\ \E body \in [name : Opt(ZoneNames)] : PostZones(body)
    /\ DOMAIN zones' \subseteq ReadZoneIds
    /\ UNCHANGED <<products, movements, calls, pendingInitial>>
CatalogDeleteZoneStep ==
    /\ \E id \in ReadZoneIds : CatalogDeleteZones(id)
    /\ UNCHANGED <<products, movements, calls, pendingInitial>>

NextCatalog ==
    \/ CatalogCreateStep \/ CatalogPutStep \/ DeleteStep
    \/ CatalogCreateZoneStep \/ CatalogDeleteZoneStep

SpecCatalog == Init /\ [][NextCatalog]_vars

\* ------------------------- the dashboard among concurrent product requests
\* getDashboardMetrics awaits six queries one after another, outside a
\* transaction; a product request may be served between two of them.  Slot 1
\* of calls holds the position of the one GET /api/dashboard/metrics handler
\* and the results it has so far.  The queries are, in their order:
\* totalItems, lowStockItems, outOfStockItems, totalValue, recentActivities
\* and zoneStatus.
NoMetrics ==
    [totalItems |-> 0, lowStockItems |-> 0, outOfStockItems |-> 0, totalValue |-> 0,
     recentActivities |-> << >>, zoneStatus |-> << >>]

\* the results so far with the result of query k replaced by that of m
WithResult(metrics, k, m) ==
    IF k = 1 THEN [metrics EXCEPT !.totalItems = m.totalItems]
    ELSE IF k = 2 THEN [metrics EXCEPT !.lowStockItems = m.lowStockItems]
    ELSE IF k = 3 THEN [metrics EXCEPT !.outOfStockItems = m.outOfStockItems]
    ELSE IF k = 4 THEN [metrics EXCEPT !.totalValue = m.totalValue]
    ELSE IF k = 5 THEN [metrics EXCEPT !.recentActivities = m.recentActivities]
    ELSE [metrics EXCEPT !.zoneStatus = m.zoneStatus]

\* GET /api/dashboard/metrics: the handler starts
DashboardStart ==
    /\ calls[1].pc = "idle"
    /\ calls' = [calls EXCEPT ![1] = [pc |-> "query", next |-> 1, metrics |-> NoMetrics]]
    /\ UNCHANGED <<products, movements, response, pendingInitial, zones>>

\* getDashboardMetrics: the next of the six queries, on the tables as they are
\* now; after the sixth the route answers with the results
DashboardQuery ==
    /\ calls[1].pc = "query"
    /\ \E m \in getDashboardMetrics(products, zones, WithCreatedAt(movements)) :
         LET k == calls[1].next
             metrics == WithResult(calls[1].metrics, k, m)
         IN IF k < 6
            THEN /\ calls' = [calls EXCEPT ![1].next = k + 1,
                                           ![1].metrics = metrics]
                 /\ UNCHANGED response
            ELSE /\ calls' = [calls EXCEPT ![1] = Idle]
                 /\ response' = [op |-> "getDashboardMetrics", metrics |-> metrics]
    /\ UNCHANGED <<products, movements, pendingInitial, zones>>

\* the product requests served meanwhile: creations without a starting stock,
\* in zone 1 or in none, reassignments and soft deletes
DashboardCreateStep ==
    /\ \E body \in [productId : ExternalIds, zoneId : Opt(ZoneIds), currentStock : {Absent}],
          user \in Users : CatalogPostProducts(body, user)
    /\ DOMAIN products' \subseteq ReadRowIds
    /\ UNCHANGED <<calls, pendingInitial, zones>>
DashboardPutStep ==
    /\ \E id \in ReadRowIds, body \in [productId : {Absent}, zoneId : Opt(ZoneIds)] :
         CatalogPutProduct(id, body)
    /\ UNCHANGED <<calls, pendingInitial, zones>>

NextDashboard ==
    \/ DashboardStart \/ DashboardQuery
    \/ DashboardCreateStep \/ DashboardPutStep \/ DeleteStep \/ CreateZoneStep

SpecDashboard == Init /\ [][NextDashboard]_vars

\* ------------------------------------------------------------ properties
\* the movement history of a product, oldest first
rowsOf(p) == SelectSeq(movements, LAMBDA m : m.productId = p)

RECURSIVE signedSum(_)
\* the sum of the IN quantities minus the sum of the OUT quantities
signedSum(rows) ==
    IF rows = << >> THEN 0
    ELSE (IF Head(rows).type = "IN" THEN Head(rows).quantity ELSE 0 - Head(rows).quantity)
         + signedSum(Tail(rows))

\* C1: a stock update of direction OUT whose quantity is larger than the
\* product's currentStock fails with 'Insufficient stock', and the products
\* and movements tables are after the call what they were before it.
C1_InsufficientStockChangesNothing ==
    [][\A id \in RequestIds, q \in Quantities, reason \in Reasons, user \in Users :
         (/\ id \in DOMAIN products
          /\ q > products[id].currentStock
          /\ PostStock(id, q, "OUT", reason, user))
         => /\ response' = Response(500, "Insufficient stock")
            /\ products' = products
            /\ movements' = movements]_vars

\* an OUT larger than a positive stock has been refused
C1_Witness ==
    /\ response = Response(500, "Insufficient stock")
    /\ \E p \in DOMAIN products : products[p].currentStock > 0
    /\ movements # << >>

C3_ExactlyTwoWrites ==
    [][\A id \in RequestIds, q \in Quantities, type \in MovementTypes,
          reason \in Reasons, user \in Users :
         (PostStock(id, q, type, reason, user) /\ response' = StockUpdated)
         => /\ id \in DOMAIN products
            /\ LET previousStock == products[id].currentStock
                   newStock == IF type = "IN" THEN previousStock + q ELSE previousStock - q
               IN /\ products' = [products EXCEPT ![id].currentStock = newStock]
                  /\ movements' = Append(movements,
                       [productId |-> id, type |-> type, quantity |-> q,
                        previousStock |-> previousStock, newStock |-> newStock,
                        reason |-> reason, userId |-> user])]_vars

\* an OUT has succeeded on the second product, after an earlier movement
C3_Witness ==
    /\ response = StockUpdated
    /\ Len(movements) >= 2
    /\ movements[Len(movements)].type = "OUT"
    /\ movements[Len(movements)].productId = 2
    /\ movements[Len(movements)].newStock # movements[Len(movements)].previousStock

\* C4: the two writes of a stock update become visible together: every step
\* of a stock-update request either leaves both tables as the other requests
\* see them, or publishes the new currentStock and the movement row at once.
C4_WritesVisibleTogether ==
    [][calls' # calls =>
         \/ products' = products /\ movements' = movements
         \/ \E c \in CallIds :
              /\ calls[c].pc = "commit"
              /\ products' = [products EXCEPT
                                ![calls[c].productId].currentStock = calls[c].newStock]
              /\ Len(movements') = Len(movements) + 1
              /\ movements'[Len(movements')].productId = calls[c].productId
              /\ movements'[Len(movements')].newStock = calls[c].newStock
              /\ movements'[Len(movements')].previousStock = calls[c].previousStock
              /\ SubSeq(movements', 1, Len(movements)) = movements]_vars

\* a transaction has run its UPDATE and not yet its INSERT; the other
\* requests still see the old currentStock
C4_Witness ==
    \E c \in CallIds :
      /\ calls[c].pc = "insert"
      /\ calls[c].newStock # calls[c].previousStock
      /\ products[calls[c].productId].currentStock = calls[c].previousStock

\* C5: concurrent stock updates of a product never compute newStock from the
\* same stale previousStock: in a product's movement history every row's
\* previousStock is the newStock of the row before it (two IN of 1 from 0
\* give 0 -> 1 and 1 -> 2, never 0 -> 1 twice).
C5_NoLostUpdate ==
    \A p \in DOMAIN products :
      \A i \in 1..(Len(rowsOf(p)) - 1) :
        rowsOf(p)[i + 1].previousStock = rowsOf(p)[i].newStock

C7_StockIsLastNewStock ==
    \A p \in DOMAIN products :
      rowsOf(p) # << >> => products[p].currentStock = rowsOf(p)[Len(rowsOf(p))].newStock

\* two products have movements, the last stock update took the first one to 0
C7_Witness ==
    /\ \A p \in ProductIds : p \in DOMAIN products /\ rowsOf(p) # << >>
    /\ movements[Len(movements)].productId = 1
    /\ movements[Len(movements)].reason = "restock"
    /\ movements[Len(movements)].newStock = 0

\* C8: a stock update that fails after its UPDATE of the product (its INSERT
\* names a user that does not exist) is rolled back: the currentStock the
\* other requests see is the one the call read, the rollback changes neither
\* table, and the call ends there without a second attempt.
C8_FailedUpdateRolledBack ==
    [][\A c \in CallIds :
         (calls[c].pc = "rollback" /\ calls[c].message = "FOREIGN KEY constraint failed")
         => /\ products[calls[c].productId].currentStock = calls[c].previousStock
            /\ calls'[c] # calls[c]
               => /\ calls'[c] = Idle
                  /\ products' = products
                  /\ movements' = movements]_vars

\* the INSERT of a call that changes the stock has been rejected
C8_Witness ==
    \E c \in CallIds :
      /\ calls[c].pc = "rollback"
      /\ calls[c].message = "FOREIGN KEY constraint failed"
      /\ calls[c].newStock # calls[c].previousStock
      /\ calls[c].userId = "u9"

\* C9: a stock update whose quantity is zero or negative is rejected and
\* changes neither table, so that no movement of the stock-update route has a
\* quantity of zero or less.
C9_NonPositiveQuantityRejected ==
    [][\A id \in RequestIds, q \in Quantities, type \in MovementTypes,
          reason \in Reasons, user \in Users :
         (q <= 0 /\ PostStock(id, q, type, reason, user))
         => /\ response'.status # 200
            /\ products' = products
            /\ movements' = movements]_vars

\* C10: an IN of q >= 1 followed by an OUT of q on the same product, nothing
\* else touching the product in between, gives two rows s -> s + q and
\* s + q -> s and leaves currentStock at s.
C10_InThenOutRestores ==
    \A p \in DOMAIN products :
      \A i \in 1..(Len(rowsOf(p)) - 1) :
        LET first == rowsOf(p)[i]
            second == rowsOf(p)[i + 1]
        IN (/\ first.type = "IN" /\ first.reason = "restock" /\ first.quantity >= 1
            /\ second.type = "OUT" /\ second.reason = "restock" /\ second.quantity = first.quantity)
           => /\ first.newStock = first.previousStock + first.quantity
              /\ second.previousStock = first.newStock
              /\ second.newStock = first.previousStock
              /\ i + 1 = Len(rowsOf(p)) => products[p].currentStock = first.previousStock

\* a product created with stock has gone IN by 1 and OUT by 1
C10_Witness ==
    \E p \in DOMAIN products :
      /\ Len(rowsOf(p)) = 3
      /\ rowsOf(p)[1].newStock = 1
      /\ rowsOf(p)[2].type = "IN" /\ rowsOf(p)[2].quantity = 1
      /\ rowsOf(p)[3].type = "OUT" /\ rowsOf(p)[3].quantity = 1
      /\ products[p].currentStock = 1

C12_MovementsAppendOnly ==
    [][/\ Len(movements') >= Len(movements)
       /\ SubSeq(movements', 1, Len(movements)) = movements]_vars

\* two rows are in the table, the product has since been edited by PUT and
\* soft-deleted, and a zone has been deleted
C12_Witness ==
    /\ Len(movements) = 2
    /\ 1 \in DOMAIN products
    /\ products[1].isActive = 0
    /\ products[1].currentStock # movements[2].newStock
    /\ zones # << >>
    /\ ~zones[1].present

\* C13: under all the routes, PUT /api/products/:id included, every product's
\* currentStock is the sum of the IN quantities minus the sum of the OUT
\* quantities of its movements.
C13_StockDerivableUnderPut ==
    \A p \in DOMAIN products :
      signedSum(rowsOf(p)) - products[p].currentStock = 0

\* the three-way classification of a stock level
classifyStock(row) ==
    IF row.currentStock = 0 THEN "out_of_stock"
    ELSE IF row.currentStock <= row.minStock THEN "low_stock"
    ELSE "in_stock"

\* the ids a query returned
Returned(rows) == {rows[i] : i \in DOMAIN rows}

\* C14: getProducts with a status s returns an active product exactly when
\* its classification is s: out_of_stock iff currentStock = 0, low_stock iff
\* 0 < currentStock <= minStock, in_stock otherwise.
C14_StatusFilterClassifies ==
    (/\ response.op = "getProducts"
     /\ response.filters.status # Absent
     /\ response.filters.category = Absent
     /\ response.filters.zoneId = Absent
     /\ response.filters.search = Absent)
    => \A p \in DOMAIN products :
         (/\ products[p].isActive = 1
          /\ response.filters.status[1] \in {"in_stock", "low_stock", "out_of_stock"})
         => (p \in Returned(response.rows)
             <=> classifyStock(products[p]) = response.filters.status[1])

\* the low_stock filter has returned a product whose stock equals its
\* positive minimum and left out one that is one above it
C14_Witness ==
    /\ response.op = "getProducts"
    /\ response.filters.status = <<"low_stock">>
    /\ Len(products) = 2
    /\ products[1].isActive = 1 /\ products[2].isActive = 1
    /\ products[1].currentStock = products[1].minStock /\ products[1].minStock > 0
    /\ products[2].currentStock = products[2].minStock + 1
    /\ response.rows = <<1>>

\* the wording of a class in the report's Status column
StatusWording(class) ==
    IF class = "in_stock" THEN "In Stock"
    ELSE IF class = "low_stock" THEN "Low Stock"
    ELSE "Out of Stock"

\* the places other than the dialog's preview agree with the classification
C15_ListsAndCountsAgree ==
    /\ C14_StatusFilterClassifies
    /\ response.op = "getDashboardMetrics"
       => LET active == {p \in DOMAIN products : products[p].isActive = 1}
          IN /\ response.metrics.lowStockItems =
                  Cardinality({p \in active : classifyStock(products[p]) = "low_stock"})
             /\ response.metrics.outOfStockItems =
                  Cardinality({p \in active : classifyStock(products[p]) = "out_of_stock"})
    /\ response.op = "report"
       => response.status = StatusWording(classifyStock(products[response.id]))
    /\ response.op = "badge"
       => response.status = classifyStock(products[response.id])

\* C15: the status filter, the dashboard's low and out counts, the report's
\* Status column, the inventory table's badge and the stock-movement dialog's
\* preview all follow the one three-way classification, a stock equal to the
\* minimum being low: the preview calls a resulting stock normal exactly when
\* its class is in_stock.
C15_ClassificationConsistent ==
    /\ C15_ListsAndCountsAgree
    /\ (response.op = "preview" /\ response.newStock >= 0)
       => (response.label = "(Normal)"
           <=> classifyStock([currentStock |-> response.newStock,
                              minStock |-> products[response.id].minStock]) = "in_stock")

\* the products with isActive = true
ActiveIds == {p \in DOMAIN products : products[p].isActive = 1}

\* C16: getDashboardMetrics().totalValue equals the sum of currentStock *
\* unitPrice over the products with isActive = true (both sides in halves of a
\* currency unit); soft-deleted products contribute nothing and without
\* active products the value is 0.
C16_TotalValueIsActiveSum ==
    response.op = "getDashboardMetrics"
    => response.metrics.totalValue * 2 = SumValue(products, ActiveIds)

\* C17: with the tables at rest, getDashboardMetrics returns totalItems = the
\* number of active products, lowStockItems = the number of active products
\* with 0 < currentStock <= minStock and outOfStockItems = the number of
\* active products with currentStock = 0; soft-deleted products are counted in
\* none of the three.
C17_DashboardCounts ==
    response.op = "getDashboardMetrics"
    => /\ response.metrics.totalItems = Cardinality(ActiveIds)
       /\ response.metrics.lowStockItems =
            Cardinality({p \in ActiveIds :
                           /\ 0 < products[p].currentStock
                           /\ products[p].currentStock <= products[p].minStock})
       /\ response.metrics.outOfStockItems =
            Cardinality({p \in ActiveIds : products[p].currentStock = 0})

\* the dashboard of an active low product beside a soft-deleted one without stock
C17_Witness ==
    /\ response.op = "getDashboardMetrics"
    /\ response.metrics.totalItems = 1
    /\ response.metrics.lowStockItems = 1
    /\ response.metrics.outOfStockItems = 0
    /\ \E p \in DOMAIN products : products[p].isActive = 0 /\ products[p].currentStock = 0

\* the zones that exist
ExistingZones == {z \in DOMAIN zones : zones[z].present}

\* C18: getDashboardMetrics().zoneStatus has exactly one row for every
\* existing zone and no other row, and the row's itemCount is the number of
\* products with isActive = true whose zoneId is that zone: a zone referenced
\* by no product, or only by soft-deleted ones, has a row with itemCount 0.
C18_ZoneStatusRows ==
    response.op = "getDashboardMetrics"
    => LET rows == response.metrics.zoneStatus
       IN /\ \A i \in DOMAIN rows : rows[i].id \in ExistingZones
          /\ \A z \in ExistingZones :
               /\ Cardinality({i \in DOMAIN rows : rows[i].id = z}) = 1
               /\ \A i \in DOMAIN rows :
                    rows[i].id = z
                    => rows[i].itemCount =
                         Cardinality({p \in ActiveIds : products[p].zoneId = z})

\* a dashboard with a zone of one active product beside a zone that only a
\* soft-deleted product references, shown with itemCount 0
C18_Witness ==
    /\ response.op = "getDashboardMetrics"
    /\ \E i, j \in DOMAIN response.metrics.zoneStatus :
         /\ response.metrics.zoneStatus[i].itemCount = 1
         /\ response.metrics.zoneStatus[j].itemCount = 0
         /\ \E p \in DOMAIN products :
              /\ products[p].zoneId = response.metrics.zoneStatus[j].id
              /\ products[p].isActive = 0

\* the movements of the product asked for, or all of them
Matching(productId) ==
    {i \in DOMAIN movements :
       IF productId = Absent THEN TRUE ELSE movements[i].productId = productId[1]}

\* rows holds the most recently appended movements of ids, at most limit of
\* them, the latest append first
NewestFirst(rows, ids, limit) ==
    /\ Len(rows) <= limit
    /\ \A i \in DOMAIN rows : rows[i] \in ids
    /\ \A i, j \in DOMAIN rows : i < j => rows[i] > rows[j]
    /\ \A i \in DOMAIN rows : \A later \in ids :
         later > rows[i] => \E j \in DOMAIN rows : rows[j] = later
    /\ Len(rows) < limit => \A i \in ids : \E j \in DOMAIN rows : rows[j] = i

\* C19: getMovements(productId?, limit) returns at most limit rows (50 without
\* a limit, 10 for the dashboard's recentActivities), only of the given
\* product when a productId is supplied, and they are the most recently
\* appended matching movements, newest first: a movement appended later never
\* comes after, or is dropped in favour of, one appended earlier.
C19_MovementsNewestFirst ==
    /\ (response.op = "getMovements" /\ response.productId # <<0>>)
       => NewestFirst(response.rows, Matching(response.productId),
                      IF response.limit = Absent THEN DefaultLimit ELSE response.limit[1])
    /\ response.op = "getDashboardMetrics"
       => NewestFirst(response.metrics.recentActivities, Matching(Absent), RecentLimit)

\* s occurs in text, the case of the letters set aside
ContainsIgnoringCase(text, s) ==
    \E i \in 1..(Len(text) - Len(s) + 1) :
      \A k \in 1..Len(s) : Lower(text[i + k - 1]) = Lower(s[k])

\* the row satisfies every filter that is supplied
Satisfies(row, filters) ==
    /\ filters.category # Absent => row.category = filters.category[1]
    /\ filters.zoneId # Absent => row.zoneId = filters.zoneId[1]
    /\ (filters.status # Absent /\ filters.status # <<"all">>)
       => classifyStock(row) = filters.status[1]
    /\ filters.search # Absent
       => \/ ContainsIgnoringCase(row.name, filters.search[1])
          \/ ContainsIgnoringCase(row.productId, filters.search[1])
          \/ ContainsIgnoringCase(row.category, filters.search[1])

\* the rows are ordered by name ascending
OrderedByName(rows) ==
    \A i, j \in DOMAIN rows : i < j => StringLeq(products[rows[i]].name, products[rows[j]].name)

\* C20: getProducts(filters) returns exactly the products with isActive = true
\* that satisfy every supplied filter (category and zoneId exactly, status by
\* classification, search as a case-insensitive substring of name, external
\* productId or category), each once, ordered by name ascending; a
\* soft-deleted product is never returned.
C20_GetProductsFilters ==
    response.op = "getProducts"
    => /\ Returned(response.rows) =
            {p \in ActiveIds : Satisfies(products[p], response.filters)}
       /\ \A i, j \in DOMAIN response.rows : i # j => response.rows[i] # response.rows[j]
       /\ OrderedByName(response.rows)

\* the same without a wildcard character in the search
C20_WithoutWildcards ==
    (/\ response.op = "getProducts"
     /\ response.filters.search # Absent
     /\ \E k \in DOMAIN response.filters.search[1] : response.filters.search[1][k] = "_")
    \/ C20_GetProductsFilters

\* C21: a POST /api/products with a starting stock c > 0 gives the new product
\* exactly one movement, of type IN, quantity c, previousStock 0, newStock c,
\* reason "Initial stock" and the acting user's id; with a starting stock of 0
\* or none it appends no movement.
C21_InitialMovement ==
    [][\A body \in ProductBodies, user \in Users :
         (PostProducts(body, user) /\ response' = Response(201, ""))
         => LET id == Len(products) + 1
                c == WithDefault(body.currentStock, 0)
            IN /\ id \in DOMAIN products'
               /\ products'[id].currentStock = c
               /\ IF c > 0
                  THEN /\ movements' = Append(movements,
                            [productId |-> id, type |-> "IN", quantity |-> c,
                             previousStock |-> 0, newStock |-> c,
                             reason |-> "Initial stock", userId |-> user])
                       /\ Cardinality({i \in DOMAIN movements' :
                                         movements'[i].productId = id}) = 1
                  ELSE movements' = movements]_vars

\* a product created with stock 2 and its one movement, beside a product
\* created without stock
C21_Witness ==
    /\ Len(products) = 2
    /\ products[1].currentStock = 0
    /\ products[2].currentStock = 2
    /\ response = Response(201, "")
    /\ movements = <<[productId |-> 2, type |-> "IN", quantity |-> 2, previousStock |-> 0,
                      newStock |-> 2, reason |-> "Initial stock", userId |-> "u1"]>>

\* C22: deleteProduct(p) sets isActive to false and changes nothing else: the
\* row is still there and getProduct returns it, its currentStock is what it
\* was, the movements table is what it was, and getMovements still returns
\* every movement of p, each joined with p's row.
C22_SoftDelete ==
    [][\A id \in RequestIds :
         (id \in DOMAIN products /\ DeleteProduct(id))
         => /\ products' = [products EXCEPT ![id].isActive = 0]
            /\ getProduct(products', id) = <<products'[id]>>
            /\ products'[id].currentStock = products[id].currentStock
            /\ movements' = movements
            /\ \A rows \in getMovements(WithCreatedAt(movements'), <<id>>, DefaultLimit) :
                 /\ Returned(rows) = {i \in DOMAIN movements : movements[i].productId = id}
                 /\ \A k \in DOMAIN rows :
                      MovementProduct(products', movements', rows[k]) = <<products'[id]>>]_vars

\* a soft-deleted product that keeps its stock and its two movements
C22_Witness ==
    /\ response = Response(204, "")
    /\ 1 \in DOMAIN products
    /\ products[1].isActive = 0
    /\ products[1].currentStock = 2
    /\ Len(rowsOf(1)) = 2

\* C25: POST /api/products/:id/stock answers 404 when the id names no product
\* and a 4xx status with an explanatory message when the update is rejected
\* for insufficient stock; neither is answered with a 5xx status.
C25_ClientErrorStatuses ==
    [][\A id \in RequestIds, q \in Quantities, type \in MovementTypes,
          reason \in Reasons, user \in Users :
         (q # 0 /\ PostStock(id, q, type, reason, user))
         => /\ id \notin DOMAIN products => response'.status = 404
            /\ (/\ id \in DOMAIN products
                /\ NewStock(products[id].currentStock, q, type) < 0)
               => /\ response'.status \in 400..499
                  /\ response'.message # ""]_vars

\* C26: creating a product with a starting stock > 0 and logging its initial
\* movement are one atomic step: once createProduct has written the row, no
\* state, the one a concurrent reader sees between the two writes included,
\* has the new product with currentStock > 0 and no movement.
C26_CreationAtomic ==
    [][\A body \in ProductBodies, user \in Users :
         ApiCreateProduct(body, user)
         => LET id == Len(products) + 1
            IN products'[id].currentStock > 0
               => \E i \in DOMAIN movements' : movements'[i].productId = id]_vars

\* C27: concurrent withdrawals take out no more than is in stock: of two
\* concurrent updateStock(p, q, OUT) calls with q <= currentStock < 2q at most
\* one succeeds, so that the OUT quantities of p's movements never add up to
\* more than its IN quantities.
C27_WithdrawalsWithinStock ==
    \A p \in DOMAIN products : signedSum(rowsOf(p)) >= 0

\* C29: of a finite number of concurrent updateStock calls, on the same or on
\* different products, every call completes under a fair scheduler, by
\* committing or by aborting with an error: no call waits forever.
C29_EveryCallCompletes ==
    \A c \in CallIds : (calls[c].pc # "idle") ~> (calls[c].pc = "idle")

\* two calls on the same product have both committed, one after the other
C29_Witness ==
    /\ \A c \in CallIds : calls[c].pc = "idle"
    /\ Len(movements) = 2
    /\ movements[1].productId = movements[2].productId
    /\ movements[2].previousStock = movements[1].newStock

\* C23: in every reachable state every product with a zoneId references a
\* zone that exists: deleteZone on a zone that a product, active or
\* soft-deleted, still references fails and leaves the zone in place, and
\* createProduct and updateProduct store no zoneId that names no zone.
C23_ZoneReferencesExist ==
    \A p \in DOMAIN products :
      products[p].zoneId # 0 => products[p].zoneId \in ExistingZones

\* the delete of a zone that only a soft-deleted product references has failed
C23_Witness ==
    /\ response = Response(500, "Failed to delete zone")
    /\ \E p \in DOMAIN products :
         /\ products[p].isActive = 0
         /\ products[p].zoneId \in ExistingZones
         /\ \A q \in DOMAIN products : q # p => products[q].zoneId = 0

\* another row, active or soft-deleted, has the productId
Taken(id, productId) ==
    \E p \in DOMAIN products : p # id /\ products[p].productId = productId

\* C24: no two products rows, active or soft-deleted, ever share an external
\* productId: a createProduct or an updateProduct that would give a product
\* the productId of another row, a soft-deleted one included, fails and leaves
\* the products and movements tables unchanged.
C24_ProductIdUnique ==
    [][/\ \A p, q \in DOMAIN products' :
            p # q => products'[p].productId # products'[q].productId
       /\ \A body \in CatalogBodies, user \in Users :
            (Taken(0, body.productId) /\ CatalogPostProducts(body, user))
            => /\ response'.status = 500
               /\ UNCHANGED <<products, movements>>
       /\ \A id \in ReadRowIds, body \in CatalogPartialBodies :
            (/\ id \in DOMAIN products
             /\ body.productId # Absent
             /\ Taken(id, body.productId[1])
             /\ CatalogPutProduct(id, body))
            => /\ response'.status = 500
               /\ UNCHANGED <<products, movements>>]_vars

\* with both zones in place, so that no foreign key can fail, the creation of
\* a product with the productId of the one, soft-deleted row has failed
C24_Witness ==
    /\ ExistingZones = ReadZoneIds
    /\ Len(products) = 1
    /\ products[1].isActive = 0
    /\ response = Response(500, "Failed to create product")

\* zoneStatus reports the zone with itemCount 0
ReportedEmpty(id) ==
    \A status \in zoneStatus(zones, products) :
      \E i \in DOMAIN status : status[i].id = id /\ status[i].itemCount = 0

\* C30: a zone that zoneStatus reports with itemCount = 0 can always be
\* deleted: deleteZone on it succeeds and removes the zones row, whatever
\* product creations, zone reassignments and soft deletes came before.
C30_EmptyZoneDeletable ==
    [][\A id \in ReadZoneIds :
         (id \in ExistingZones /\ ReportedEmpty(id) /\ CatalogDeleteZones(id))
         => /\ response' = Response(204, "")
            /\ id \notin ExistingZones']_vars

RECURSIVE SumItemCount(_)
\* the sum of the itemCount values of the zoneStatus rows
SumItemCount(rows) ==
    IF rows = << >> THEN 0 ELSE Head(rows).itemCount + SumItemCount(Tail(rows))

\* C28: every response of getDashboardMetrics is consistent in itself, also
\* when createProduct, deleteProduct, updateProduct or updateStock run between
\* its queries: lowStockItems + outOfStockItems <= totalItems, and the
\* itemCount values of zoneStatus add up to at most totalItems.
C28_DashboardConsistent ==
    IF "op" \in DOMAIN response
    THEN response.op = "getDashboardMetrics"
         => /\ response.metrics.lowStockItems + response.metrics.outOfStockItems
                 <= response.metrics.totalItems
            /\ SumItemCount(response.metrics.zoneStatus) <= response.metrics.totalItems
    ELSE TRUE

====
